---- MODULE Spec2Model ----
(***************************************************************************)
(* Model of .github/scripts/review_with_glm.py: the main block fetches the *)
(* changed files of a pull request, sends the collected patches to the GLM *)
(* chat-completion endpoint and posts the answer as an issue comment.      *)
(*                                                                         *)
(* Python strings are TLA+ strings (\o is concatenation).  Two literals of *)
(* the script hold non-ASCII text and are written here in ASCII: the emoji *)
(* U+1F916 of the comment header as "<U+1F916>", and the Thai instruction  *)
(* of the prompt as "<thai review instruction>".                           *)
(***************************************************************************)
EXTENDS Integers, Sequences, FiniteSets, TLC

VARIABLES
    pc,            \* position in the main block (line about to run)
    out,           \* lines printed on stdout
    net,           \* HTTP events in order: <endpoint>:call / :ret / :raise
    files_resp,    \* what requests.get gave for the file list
    diff,          \* main's variable diff
    llm_req,       \* messages[0].content of the LLM request
    llm_resp,      \* what requests.post gave for the LLM call
    review_result, \* main's variable review_result
    comment_body,  \* data["body"] of the comment request
    post_resp      \* what requests.post gave for the comment call

vars == <<pc, out, net, files_resp, diff, llm_req, llm_resp, review_result,
          comment_body, post_resp>>

----------------------------------------------------------------------------
(* Bounds and input domains *)

MaxFiles == 2

FileNames == {"a.py", "logo.png"}

PatchTexts == {"", "@@ -1 +1 @@\n-x\n+y\n", "@@ -2 +2 @@\n+z\n"}

ReviewTexts == {"LGTM", "if a < b && c: use \\n\n"}

\* A changed-file entry of the response: the patch key may be absent
\* (haspatch = FALSE, file.get('patch') is then None).
FileRecords ==
    [filename : FileNames, haspatch : {TRUE}, patch : PatchTexts]
    \cup [filename : FileNames, haspatch : {FALSE}, patch : {""}]

RECURSIVE SeqsUpTo(_, _)
SeqsUpTo(S, n) ==
    IF n = 0 THEN {<<>>}
    ELSE LET shorter == SeqsUpTo(S, n - 1)
         IN  shorter \cup {Append(s, x) : s \in shorter, x \in S}

FileLists == SeqsUpTo(FileRecords, MaxFiles)

\* Python values that can be found at choices[0].message.content
Str(s) == [t |-> "str", v |-> s]
None == [t |-> "none", v |-> ""]

\* Outcomes of requests.get(...) on the file-list endpoint: the call raises,
\* or returns a response whose body is not JSON, is JSON null, is a JSON
\* object (its keys are kept) or is a JSON list of file entries.
FR(kind, status, keys, items) ==
    [kind |-> kind, status |-> status, keys |-> keys, items |-> items]

FilesPending == FR("pending", 0, <<>>, <<>>)

FilesResponses ==
    {FR("raise", 0, <<>>, <<>>)}
    \cup {FR("badjson", s, <<>>, <<>>) : s \in {200, 502}}
    \cup {FR("null", 200, <<>>, <<>>)}
    \cup {FR("object", s, k, <<>>) :
            s \in {200, 403}, k \in {<<>>, <<"message", "documentation_url">>}}
    \cup {FR("list", 200, <<>>, l) : l \in FileLists}

\* Outcomes of requests.post(...) on the LLM endpoint.  shape says how far
\* the path choices[0].message.content exists in a JSON body.
LR(kind, status, shape, content) ==
    [kind |-> kind, status |-> status, shape |-> shape, content |-> content]

LlmPending == LR("pending", 0, "none", None)

LlmShapes == {"nochoices", "emptychoices", "nomessage", "nocontent"}

LlmResponses ==
    {LR("raise", 0, "none", None)}
    \cup {LR("badjson", s, "none", None) : s \in {200, 500}}
    \cup {LR("json", s, sh, None) : s \in {200, 429, 500}, sh \in LlmShapes}
    \cup {LR("json", s, "content", c) :
            s \in {200, 429, 500}, c \in {Str(t) : t \in ReviewTexts} \cup {None}}

\* Outcomes of requests.post(...) on the comment endpoint.
PR(kind, status) == [kind |-> kind, status |-> status]

PostPending == PR("pending", 0)

PostResponses == {PR("raise", 0)} \cup {PR("http", s) : s \in {201, 403, 500}}

----------------------------------------------------------------------------
(* Results of a function call: a value, or an exception that propagates *)

Returned(v) == [fault |-> FALSE, value |-> v]
Raised(v) == [fault |-> TRUE, value |-> v]

----------------------------------------------------------------------------
(* get_pr_diff *)

\* file.get('patch') is truthy: the key is present and the text non-empty
PatchKept_present(file) == file.haspatch

PatchKept(file) == file.haspatch /\ file.patch # ""

\* the f-string appended for one file
FileChunk_short(file) == "File: " \o file.filename \o "\n" \o file.patch \o "\n"

FileChunk(file) == "File: " \o file.filename \o "\n" \o file.patch \o "\n\n"

\* the for loop over files, from entry i on, with accumulator diff_content
RECURSIVE CollectDiff(_, _, _)
CollectDiff(files, i, diff_content) ==
    IF i > Len(files) THEN diff_content
    ELSE CollectDiff(files, i + 1,
                     IF PatchKept(files[i])
                     THEN diff_content \o FileChunk(files[i])
                     ELSE diff_content)

\* as get_pr_diff, but JSON null is read as "no files"
get_pr_diff_lenient(resp) ==
    IF resp.kind = "raise" THEN Raised("")
    ELSE IF resp.kind = "badjson" THEN Raised("")
    ELSE IF resp.kind = "null" THEN Returned("")
    ELSE IF resp.kind = "object"
         THEN IF resp.keys = <<>> THEN Returned("") ELSE Raised("")
    ELSE Returned(CollectDiff(resp.items, 1, ""))

\* get_pr_diff once requests.get has given resp:
\*   requests.get raised                         -> the exception propagates
\*   response.json() on a non-JSON body          -> raises
\*   for file in None                            -> TypeError
\*   for file in {..}: iterates the keys, which are str and have no .get
\*                     -> AttributeError; over {} the loop body never runs
\*   for file in [..]: the loop proper
get_pr_diff(resp) ==
    IF resp.kind = "raise" THEN Raised("")
    ELSE IF resp.kind = "badjson" THEN Raised("")
    ELSE IF resp.kind = "null" THEN Raised("")
    ELSE IF resp.kind = "object"
         THEN IF resp.keys = <<>> THEN Returned("") ELSE Raised("")
    ELSE Returned(CollectDiff(resp.items, 1, ""))

----------------------------------------------------------------------------
(* ask_glm *)

\* f"{value}" : str() of the value
Format(value) == IF value.t = "none" THEN "None" ELSE value.v

Instruction == "<thai review instruction>:\n\n"

\* payload["messages"][0]["content"]
PromptContent(diff_text) == Instruction \o diff_text

\* as ask_glm, with response.raise_for_status() before the body is read
ask_glm_checked(resp) ==
    IF resp.kind = "raise" THEN Raised(None)
    ELSE IF resp.status >= 400 THEN Raised(None)
    ELSE IF resp.kind = "badjson" THEN Raised(None)
    ELSE IF resp.shape # "content" THEN Raised(None)
    ELSE Returned(resp.content)

\* as ask_glm, with an empty text substituted when choices is missing
ask_glm_fallback(resp) ==
    IF resp.kind = "raise" THEN Raised(None)
    ELSE IF resp.kind = "badjson" THEN Raised(None)
    ELSE IF resp.shape = "nochoices" THEN Returned(Str(""))
    ELSE IF resp.shape # "content" THEN Raised(None)
    ELSE Returned(resp.content)

\* ask_glm once requests.post has given resp:
\*   requests.post raised                        -> the exception propagates
\*   response.json() on a non-JSON body          -> raises
\*   ['choices'] / [0] / ['message'] / ['content'] missing
\*                                               -> KeyError / IndexError
\* The status code is never read.
ask_glm(resp) ==
    IF resp.kind = "raise" THEN Raised(None)
    ELSE IF resp.kind = "badjson" THEN Raised(None)
    ELSE IF resp.shape = "nochoices" THEN Raised(None)
    ELSE IF resp.shape = "emptychoices" THEN Raised(None)
    ELSE IF resp.shape = "nomessage" THEN Raised(None)
    ELSE IF resp.shape = "nocontent" THEN Raised(None)
    ELSE Returned(resp.content)

----------------------------------------------------------------------------
(* post_comment_to_pr *)

Header == "## <U+1F916> GLM Code Review Bot\n\n"

CommentBody_oneline(message) == "## <U+1F916> GLM Code Review Bot\n" \o Format(message)

\* data["body"]
CommentBody(message) == Header \o Format(message)

\* as post_comment_to_pr, with the status of the response checked
post_comment_to_pr_checked(resp) ==
    IF resp.kind = "raise" THEN Raised("")
    ELSE IF resp.status >= 400 THEN Raised("")
    ELSE Returned("")

\* post_comment_to_pr once requests.post has given resp: an exception of
\* requests.post propagates, a response is dropped unread.
post_comment_to_pr(resp) ==
    IF resp.kind = "raise" THEN Raised("") ELSE Returned("")

----------------------------------------------------------------------------
(* The main block *)

FetchingLine == "Fetching PR diff..."
NoDiffLine == "No diff found or diff is too large."
SendingLine == "Sending to GLM..."
PostingLine == "Posting comment to GitHub..."
DoneLine == "Done!"

\* as NotDiff, but the short-circuit is never taken
NotDiff_never(d) == FALSE

\* "if not diff": an empty str is falsy
NotDiff(d) == d = ""

Init ==
    /\ pc = "l63"
    /\ out = <<>>
    /\ net = <<>>
    /\ files_resp = FilesPending
    /\ diff = ""
    /\ llm_req = ""
    /\ llm_resp = LlmPending
    /\ review_result = None
    /\ comment_body = ""
    /\ post_resp = PostPending

\* line 63
PrintFetching ==
    /\ pc = "l63"
    /\ out' = Append(out, FetchingLine)
    /\ pc' = "l64"
    /\ UNCHANGED <<net, files_resp, diff, llm_req, llm_resp, review_result,
                   comment_body, post_resp>>

\* line 64 -> line 18: the GET is sent
GetPrDiffCall ==
    /\ pc = "l64"
    /\ net' = Append(net, "files:call")
    /\ pc' = "l18"
    /\ UNCHANGED <<out, files_resp, diff, llm_req, llm_resp, review_result,
                   comment_body, post_resp>>

\* as GetPrDiffReturn, but a GET that raised is sent once more
GetPrDiffReturn_retry ==
    /\ pc = "l18"
    /\ \E resp \in FilesResponses :
        LET r == get_pr_diff(resp) IN
        /\ files_resp' = resp
        /\ net' = Append(net, IF resp.kind = "raise" THEN "files:raise"
                                                     ELSE "files:ret")
        /\ diff' = r.value
        /\ pc' = IF resp.kind = "raise" /\ Len(net) < 2 THEN "l64"
                 ELSE IF r.fault THEN "fault" ELSE "l66"
    /\ UNCHANGED <<out, llm_req, llm_resp, review_result, comment_body,
                   post_resp>>

\* lines 18-26 and the assignment of line 64: the GET ends, the body is
\* read and the patches are collected; an exception ends the process.
GetPrDiffReturn ==
    /\ pc = "l18"
    /\ \E resp \in FilesResponses :
        LET r == get_pr_diff(resp) IN
        /\ files_resp' = resp
        /\ net' = Append(net, IF resp.kind = "raise" THEN "files:raise"
                                                     ELSE "files:ret")
        /\ diff' = r.value
        /\ pc' = IF r.fault THEN "fault" ELSE "l66"
    /\ UNCHANGED <<out, llm_req, llm_resp, review_result, comment_body,
                   post_resp>>

\* lines 66-67: empty diff, the run ends
PrintNoDiff ==
    /\ pc = "l66"
    /\ NotDiff(diff)
    /\ out' = Append(out, NoDiffLine)
    /\ pc' = "done"
    /\ UNCHANGED <<net, files_resp, diff, llm_req, llm_resp, review_result,
                   comment_body, post_resp>>

\* lines 66, 68-69
PrintSending ==
    /\ pc = "l66"
    /\ ~NotDiff(diff)
    /\ out' = Append(out, SendingLine)
    /\ pc' = "l70"
    /\ UNCHANGED <<net, files_resp, diff, llm_req, llm_resp, review_result,
                   comment_body, post_resp>>

\* line 70 -> lines 30-46: the payload is built and the POST is sent
AskGlmCall ==
    /\ pc = "l70"
    /\ llm_req' = PromptContent(diff)
    /\ net' = Append(net, "llm:call")
    /\ pc' = "l46"
    /\ UNCHANGED <<out, files_resp, diff, llm_resp, review_result,
                   comment_body, post_resp>>

\* lines 46-47 and the assignment of line 70
AskGlmReturn ==
    /\ pc = "l46"
    /\ \E resp \in LlmResponses :
        LET r == ask_glm(resp) IN
        /\ llm_resp' = resp
        /\ net' = Append(net, IF resp.kind = "raise" THEN "llm:raise"
                                                     ELSE "llm:ret")
        /\ review_result' = r.value
        /\ pc' = IF r.fault THEN "fault" ELSE "l72"
    /\ UNCHANGED <<out, files_resp, diff, llm_req, comment_body, post_resp>>

\* line 72
PrintPosting ==
    /\ pc = "l72"
    /\ out' = Append(out, PostingLine)
    /\ pc' = "l73"
    /\ UNCHANGED <<net, files_resp, diff, llm_req, llm_resp, review_result,
                   comment_body, post_resp>>

\* as PostCommentCall, but the request is sent twice
PostCommentCall_twice ==
    /\ pc = "l73"
    /\ comment_body' = CommentBody(review_result)
    /\ net' = net \o <<"comment:call", "comment:ret", "comment:call">>
    /\ pc' = "l59"
    /\ UNCHANGED <<out, files_resp, diff, llm_req, llm_resp, review_result,
                   post_resp>>

\* line 73 -> lines 51-59: the body is built and the POST is sent
PostCommentCall ==
    /\ pc = "l73"
    /\ comment_body' = CommentBody(review_result)
    /\ net' = Append(net, "comment:call")
    /\ pc' = "l59"
    /\ UNCHANGED <<out, files_resp, diff, llm_req, llm_resp, review_result,
                   post_resp>>

\* line 59: the POST ends; its response is not looked at
PostCommentReturn ==
    /\ pc = "l59"
    /\ \E resp \in PostResponses :
        LET r == post_comment_to_pr(resp) IN
        /\ post_resp' = resp
        /\ net' = Append(net, IF resp.kind = "raise" THEN "comment:raise"
                                                     ELSE "comment:ret")
        /\ pc' = IF r.fault THEN "fault" ELSE "l74"
    /\ UNCHANGED <<out, files_resp, diff, llm_req, llm_resp, review_result,
                   comment_body>>

\* as PrintDone, without the last line
PrintDone_silent ==
    /\ pc = "l74"
    /\ pc' = "done"
    /\ UNCHANGED <<out, net, files_resp, diff, llm_req, llm_resp,
                   review_result, comment_body, post_resp>>

\* line 74, then the interpreter exits with status 0
PrintDone ==
    /\ pc = "l74"
    /\ out' = Append(out, DoneLine)
    /\ pc' = "done"
    /\ UNCHANGED <<net, files_resp, diff, llm_req, llm_resp, review_result,
                   comment_body, post_resp>>

Next ==
    \/ PrintFetching
    \/ GetPrDiffCall
    \/ GetPrDiffReturn
    \/ PrintNoDiff
    \/ PrintSending
    \/ AskGlmCall
    \/ AskGlmReturn
    \/ PrintPosting
    \/ PostCommentCall
    \/ PostCommentReturn
    \/ PrintDone

Spec == Init /\ [][Next]_vars

\* The script is one synchronous thread: while it has a next statement it
\* runs it, and every HTTP call that was sent returns or raises.
LiveSpec == Init /\ [][Next]_vars /\ WF_vars(Next)

----------------------------------------------------------------------------
(* Vocabulary of the properties *)

RECURSIVE CountIn(_, _)
CountIn(seq, ev) ==
    IF seq = <<>> THEN 0
    ELSE (IF Head(seq) = ev THEN 1 ELSE 0) + CountIn(Tail(seq), ev)

Calls(endpoint) == CountIn(net, endpoint \o ":call")

Terminal == pc \in {"done", "fault"}

\* The file-list body is a list and some / no entry has a non-empty patch
SomePatch ==
    /\ files_resp.kind = "list"
    /\ \E i \in 1..Len(files_resp.items) :
          files_resp.items[i].haspatch /\ files_resp.items[i].patch # ""

NoPatch ==
    /\ files_resp.kind = "list"
    /\ \A i \in 1..Len(files_resp.items) :
          ~files_resp.items[i].haspatch \/ files_resp.items[i].patch = ""

\* The LLM body is JSON in which choices[0].message.content exists
LlmHasContent == llm_resp.kind = "json" /\ llm_resp.shape = "content"

\* The bundle as the data model words it: the kept entries, in order, each
\* as a header line, the patch and a blank line.
RECURSIVE Joined(_)
Joined(entries) ==
    IF entries = <<>> THEN ""
    ELSE "File: " \o Head(entries).filename \o "\n"
         \o Head(entries).patch \o "\n\n" \o Joined(Tail(entries))

WithPatch(f) == f.haspatch /\ Len(f.patch) > 0

DiffBundle(entries) == Joined(SelectSeq(entries, WithPatch))

----------------------------------------------------------------------------
(* C1: when the file list has no entry with a non-empty patch (the empty   *)
(* list included), no request goes to the LLM endpoint or to the comment   *)
(* endpoint, the run does not fault, and it ends having printed the        *)
(* "no diff" line.                                                         *)
C1_NoDiffShortCircuit ==
    NoPatch =>
        /\ pc \in {"l66", "done"}
        /\ Calls("llm") = 0
        /\ Calls("comment") = 0
        /\ llm_req = "" /\ comment_body = ""
        /\ pc = "done" => out = <<FetchingLine, NoDiffLine>>

C1_Witness ==
    /\ NoPatch
    /\ Len(files_resp.items) >= 1
    /\ pc = "done"

(* C2: with a file list that has an entry with a non-empty patch and an    *)
(* LLM response that carries the content, the requests are exactly one GET *)
(* of the file list, then one POST to the LLM, then one POST of the        *)
(* comment; in every run the LLM POST comes after the GET has returned and *)
(* the comment POST after the LLM POST has returned.                       *)
C2_CallOrder ==
    /\ \A i \in 1..Len(net) :
          /\ net[i] = "llm:call" => \E j \in 1..(i - 1) : net[j] = "files:ret"
          /\ net[i] = "comment:call" => \E j \in 1..(i - 1) : net[j] = "llm:ret"
    /\ (SomePatch /\ LlmHasContent) =>
          /\ pc \in {"l72", "l73", "l59", "l74", "done", "fault"}
          /\ Len(net) <= 6
          /\ SubSeq(net, 1, 4) = <<"files:call", "files:ret", "llm:call", "llm:ret">>
          /\ Len(net) >= 5 => net[5] = "comment:call"
          /\ Len(net) >= 6 => net[6] \in {"comment:ret", "comment:raise"}
          /\ pc = "l59" => Len(net) = 5
          /\ pc \in {"l74", "done"} => Len(net) = 6 /\ net[6] = "comment:ret"
          /\ pc = "fault" => Len(net) = 6 /\ net[6] = "comment:raise"

C2_Witness ==
    /\ SomePatch /\ LlmHasContent
    /\ Len(files_resp.items) = 2
    /\ ~files_resp.items[2].haspatch
    /\ llm_resp.status = 200
    /\ pc = "done"

(* C3: for a list of file entries, get_pr_diff returns the concatenation,  *)
(* in response order, of "File: {filename}\n{patch}\n\n" over the entries  *)
(* whose patch is present and non-empty, entries without one add nothing   *)
(* and raise nothing, and that text is what the LLM request carries after  *)
(* the instruction.                                                        *)
C3_DiffBundle ==
    files_resp.kind = "list" =>
        /\ diff = DiffBundle(files_resp.items)
        /\ pc = "fault" => Len(net) > 2
        /\ Calls("llm") > 0 => llm_req = Instruction \o DiffBundle(files_resp.items)
        /\ files_resp.items = <<[filename |-> "a.py", haspatch |-> TRUE,
                                 patch |-> "@@ -1 +1 @@\n-x\n+y\n"]>>
              => diff = "File: a.py\n@@ -1 +1 @@\n-x\n+y\n\n\n"

C3_Witness ==
    /\ files_resp.kind = "list"
    /\ Len(files_resp.items) = 2
    /\ ~files_resp.items[1].haspatch
    /\ files_resp.items[2].haspatch /\ files_resp.items[2].patch # ""
    /\ Calls("llm") = 1

(* C4: the body of a posted comment is the header                          *)
(* "## <U+1F916> GLM Code Review Bot\n\n" followed by the content that the *)
(* LLM response of this run carried, unchanged.                            *)
C4_CommentBody ==
    Calls("comment") > 0 =>
        /\ LlmHasContent
        /\ review_result = llm_resp.content
        /\ llm_resp.content.t = "str" =>
              comment_body = "## <U+1F916> GLM Code Review Bot\n\n" \o llm_resp.content.v
        /\ llm_resp.content.t = "none" =>
              comment_body = "## <U+1F916> GLM Code Review Bot\n\nNone"

C4_Witness ==
    /\ Calls("comment") = 1
    /\ llm_resp.content = Str("if a < b && c: use \\n\n")

(* C5: when the fetch step or the review step fails (the HTTP call raises, *)
(* the body is not JSON, or the expected shape is missing), the run ends   *)
(* in a fault at that step, nothing more is printed and no comment is      *)
(* posted.                                                                 *)
FetchFailed ==
    \/ files_resp.kind \in {"raise", "badjson", "null"}
    \/ files_resp.kind = "object" /\ files_resp.keys # <<>>

ReviewFailed ==
    \/ llm_resp.kind \in {"raise", "badjson"}
    \/ llm_resp.kind = "json" /\ llm_resp.shape # "content"

C5_FailureNoComment ==
    /\ FetchFailed => pc = "fault" /\ out = <<FetchingLine>> /\ Len(net) = 2
    /\ ReviewFailed =>
          pc = "fault" /\ out = <<FetchingLine, SendingLine>> /\ Len(net) = 4
    /\ (FetchFailed \/ ReviewFailed) =>
          Calls("comment") = 0 /\ comment_body = ""

C5_Witness ==
    /\ llm_resp.kind = "json" /\ llm_resp.shape = "nochoices"
    /\ pc = "fault"

(* C6 (as claimed): whatever goes wrong with the comment POST, a non-2xx  *)
(* status or an exception of the HTTP call, the run does not fault and     *)
(* ends with the same output as after a successful post.                   *)
PostFailed ==
    \/ post_resp.kind = "raise"
    \/ post_resp.kind = "http" /\ post_resp.status >= 400

C6_Original ==
    PostFailed =>
        /\ pc # "fault"
        /\ pc = "done" => out = <<FetchingLine, SendingLine, PostingLine, DoneLine>>

(* C6: a response of the comment POST is dropped unread, so a non-success  *)
(* status raises nothing and the run prints "Done!" and completes as after *)
(* a successful post; an exception raised by the POST call itself is not   *)
(* caught and ends the run in a fault before "Done!" is printed.           *)
C6_PostStatusIgnored ==
    /\ post_resp.kind = "http" =>
          /\ pc \in {"l74", "done"}
          /\ pc = "l74" => out = <<FetchingLine, SendingLine, PostingLine>>
          /\ pc = "done" => out = <<FetchingLine, SendingLine, PostingLine, DoneLine>>
    /\ post_resp.kind = "raise" =>
          /\ pc = "fault"
          /\ out = <<FetchingLine, SendingLine, PostingLine>>

C6_Witness ==
    /\ post_resp.kind = "http" /\ post_resp.status = 500
    /\ pc = "done"

(* C7 (as claimed): a run that ends without a fault has printed exactly    *)
(* three lines when the diff is non-empty and exactly one line when it is  *)
(* empty.                                                                  *)
C7_Original ==
    pc = "done" =>
        \/ diff # "" /\ Len(out) = 3
        \/ diff = "" /\ Len(out) = 1

(* C7: a run that ends without a fault has printed exactly the four lines  *)
(* "Fetching PR diff...", "Sending to GLM...", "Posting comment to         *)
(* GitHub...", "Done!" when the diff is non-empty, and exactly the two     *)
(* lines "Fetching PR diff...", "No diff found or diff is too large." when *)
(* it is empty.                                                            *)
C7_ConsoleOutput ==
    pc = "done" =>
        \/ diff # "" /\ out = <<"Fetching PR diff...", "Sending to GLM...",
                                "Posting comment to GitHub...", "Done!">>
        \/ diff = "" /\ out = <<"Fetching PR diff...",
                                "No diff found or diff is too large.">>

C7_Witness ==
    /\ pc = "done"
    /\ diff # ""
    /\ Len(out) = 4

(* C8 (as claimed): a non-success status of the LLM response ends the run  *)
(* in a fault whatever the body is, and no comment is posted from it.      *)
LlmNonSuccess == llm_resp.kind \in {"json", "badjson"} /\ llm_resp.status >= 400

C8_Original ==
    LlmNonSuccess => pc = "fault" /\ Calls("comment") = 0

(* C8: the status of the LLM response is never read.  A non-success        *)
(* response faults the review step exactly when its body is not JSON or    *)
(* lacks choices[0].message.content; when the body has that path the run   *)
(* goes on and posts the content as the comment.                           *)
C8_LlmStatusNotRead ==
    LlmNonSuccess =>
        IF LlmHasContent
        THEN /\ pc \in {"l72", "l73", "l59", "l74", "done", "fault"}
             /\ review_result = llm_resp.content
             /\ pc = "fault" => post_resp.kind = "raise"
             /\ pc \in {"l59", "l74", "done", "fault"} =>
                   /\ Calls("comment") = 1
                   /\ comment_body = Header \o Format(llm_resp.content)
        ELSE /\ pc = "fault"
             /\ Calls("comment") = 0

C8_Witness ==
    /\ LlmNonSuccess
    /\ llm_resp.status = 500
    /\ LlmHasContent /\ llm_resp.content = Str("LGTM")
    /\ pc = "done"

(* C9 (as claimed): every file-list body that is not a list (not JSON, or  *)
(* an object, the empty object included) ends the run in a fault and is    *)
(* never treated as an empty diff.                                         *)
FilesNotList == files_resp.kind \in {"badjson", "null", "object"}

C9_Original ==
    FilesNotList =>
        /\ pc = "fault"
        /\ CountIn(out, NoDiffLine) = 0
        /\ Calls("llm") = 0 /\ Calls("comment") = 0

(* C9: a file-list body that is not JSON, is null, or is an object with at *)
(* least one key ends the run in a fault in the fetch step; the empty      *)
(* object is iterated zero times and is treated as an empty diff (the      *)
(* "no diff" line, normal end).  In neither case is a request sent to the  *)
(* LLM or the comment endpoint.                                            *)
C9_NonListBody ==
    FilesNotList =>
        /\ Calls("llm") = 0 /\ Calls("comment") = 0
        /\ IF files_resp.kind = "object" /\ files_resp.keys = <<>>
           THEN /\ pc \in {"l66", "done"}
                /\ diff = ""
                /\ pc = "done" => out = <<FetchingLine, NoDiffLine>>
           ELSE /\ pc = "fault"
                /\ out = <<FetchingLine>>

C9_Witness ==
    /\ files_resp.kind = "object"
    /\ files_resp.status = 403
    /\ files_resp.keys # <<>>
    /\ pc = "fault"

(* C10: in every run each of the three endpoints is called at most once,   *)
(* so at most three HTTP calls are made and none is repeated after a       *)
(* failure, and the run reaches a terminal state (completed or faulted).   *)
C10_NoRetry ==
    /\ [](/\ Calls("files") <= 1
          /\ Calls("llm") <= 1
          /\ Calls("comment") <= 1
          /\ Len(net) <= 6)
    /\ <>Terminal

C10_Witness ==
    /\ files_resp.kind = "raise"
    /\ pc = "fault"
    /\ Calls("files") = 1

====
